---- MODULE Spec2Model ----
(***************************************************************************)
(* Truth Gap Analyser: the review extraction / scoring / aggregation       *)
(* pipeline of the extension popup (popup script + content script) and of  *)
(* the bookmarklet, as one state machine.                                  *)
(*                                                                         *)
(* Numbers with a fractional part (ratings, scores) are kept in            *)
(* hundredths: 4.84 is 484.  Means are exact rationals [num, den].         *)
(* A review text is an identifier; TextLen gives its trimmed length.       *)
(***************************************************************************)
EXTENDS Integers, Sequences, FiniteSets, TLC

(***************************************************************************)
(* Bounds of the model                                                     *)
(***************************************************************************)
\* scoring calls that may fail during one session
MaxFailures == 1
\* handler activations that can be alive at once (one is what the guard allows)
MaxHandlers == 2
\* number of review elements on the long page (more than one batch)
BigPageLen == 22
\* clicks on analyze / retry / load-more that a session accepts
MaxClicks == 2
\* entries of the longest analyzed list the aggregate is applied to
MaxAggLen == 2
\* the longest page given to extractReviews on its own
MaxLongPage == 51

(***************************************************************************)
(* Program constants                                                       *)
(***************************************************************************)
\* reviews.slice(0, 20) in analyzeReviews
MaxAnalyze == 20
\* reviews.slice(0, 50) in extractReviews
MaxExtract == 50
\* text.length > 20
MinTextLen == 20
\* text.length < 5000
MaxTextLen == 5000
\* let stars = 3; // default
DefaultStars == 3

\* JavaScript null / undefined, for a numeric slot (all real values are >= 0)
Null == -1

(***************************************************************************)
(* State                                                                   *)
(***************************************************************************)
VARIABLES
    surface,             \* "popup" (extension) or "bookmarklet": which script runs
    dom,                 \* the page as the last extraction saw it (0: none yet)
    sel,                 \* the text selection as the last extraction saw it
    isLoading,           \* popup isLoading / bookmarklet isLoadingMore
    currentResults,      \* the analyzed reviews of the session
    allExtractedReviews, \* bookmarklet: every candidate handed on so far
    pageInfo,            \* popup pageInfo / the pageInfo the bookmarklet rendered with
    screen,              \* which state / content the UI shows
    btn,                 \* the load-more button
    report,              \* what renderResults last put on screen
    proc,                \* the handler activations between their await points
    failures,            \* scoring calls that failed so far
    failedTexts,         \* texts whose call failed in a completed operation
    clicks,              \* clicks that passed the guard of their handler so far
    rejected,            \* a click was turned away during the operation in flight
    closed,              \* bookmarklet: the overlay was removed from the document
    arg,                 \* the argument of a function applied on its own (Null: none)
    ret                  \* what the function last applied returned (Null, <<>>: none yet)

(***************************************************************************)
(* Sequence helpers                                                        *)
(***************************************************************************)
Min(a, b) == IF a <= b THEN a ELSE b
Max(a, b) == IF a >= b THEN a ELSE b

\* Array.prototype.slice(0, n)
Slice(s, n) == SubSeq(s, 1, Min(n, Len(s)))

\* Array.prototype.filter is SelectSeq of the Sequences module

\* the sum of a list of integers: values.reduce((sum, v) => sum + v, 0)
RECURSIVE Sum(_)
Sum(s) == IF s = <<>> THEN 0 ELSE Head(s) + Sum(Tail(s))

\* s is a prefix of t
IsPrefix(s, t) == Len(s) <= Len(t) /\ SubSeq(t, 1, Len(s)) = s

\* the texts of a list of reviews, in order
TextsOf(s) == [k \in 1..Len(s) |-> s[k].text]

\* no two entries of the list have the same text
NoDupText(s) == \A a, b \in 1..Len(s) : s[a].text = s[b].text => a = b


(***************************************************************************)
(* Fixtures: review texts, what the scoring service answers for them, and  *)
(* the host pages                                                          *)
(***************************************************************************)
\* texts 1..13 are individual cases, BigTexts fill the long page
BigTexts == [k \in 1..BigPageLen |-> 100 + k]

\* el.innerText.trim().length
TextLen(t) ==
    CASE t = 8 -> 19
      [] t = 9 -> 20
      [] t = 10 -> 21
      [] t = 11 -> 4999
      [] t = 12 -> 5000
      [] t = 13 -> 5001
      [] OTHER -> 100

\* Math.round of a number given in hundredths (halves go up)
Round(x) == (x + 50) \div 100

\* A review container as extractStarRating reads it: whether the Amazon
\* rating element and the generic star icon exist, the digit of their
\* a-star-(\d) class, the first number of their .a-icon-alt text and of the
\* Amazon element's innerText, the data-rating attribute, the first number of
\* the aria-label, the number of an "X out of 5" text (numbers in
\* hundredths, Null: absent or not a number) and the count of filled stars.
EmptyContainer ==
    [amazonEl |-> FALSE, amazonClass |-> Null, amazonAlt |-> Null, amazonInner |-> Null,
     iconEl |-> FALSE, iconClass |-> Null, iconAlt |-> Null,
     dataRating |-> Null, aria |-> Null, outOf5 |-> Null, filled |-> 0]

\* as extractStarRating, with a later step overriding an earlier success
extractStarRatingLastWins(c) ==
    IF c.filled > 0 /\ c.filled <= 5 THEN c.filled
    ELSE IF c.outOf5 # Null THEN Round(c.outOf5)
    ELSE IF c.aria # Null THEN Round(c.aria)
    ELSE IF c.dataRating # Null THEN Round(c.dataRating)
    ELSE IF c.iconEl /\ c.iconAlt # Null THEN Round(c.iconAlt)
    ELSE IF c.iconEl /\ c.iconClass # Null THEN c.iconClass
    ELSE IF c.amazonEl /\ c.amazonInner # Null THEN Round(c.amazonInner)
    ELSE IF c.amazonEl /\ c.amazonAlt # Null THEN Round(c.amazonAlt)
    ELSE IF c.amazonEl /\ c.amazonClass # Null THEN c.amazonClass
    ELSE Null

\* extractStarRating(parent)
extractStarRating(c) ==
    IF c.amazonEl /\ c.amazonClass # Null THEN c.amazonClass
    ELSE IF c.amazonEl /\ c.amazonAlt # Null THEN Round(c.amazonAlt)
    ELSE IF c.amazonEl /\ c.amazonInner # Null THEN Round(c.amazonInner)
    ELSE IF c.iconEl /\ c.iconClass # Null THEN c.iconClass
    ELSE IF c.iconEl /\ c.iconAlt # Null THEN Round(c.iconAlt)
    ELSE IF c.dataRating # Null THEN Round(c.dataRating)
    ELSE IF c.aria # Null THEN Round(c.aria)
    ELSE IF c.outOf5 # Null THEN Round(c.outOf5)
    ELSE IF c.filled > 0 /\ c.filled <= 5 THEN c.filled
    ELSE Null

\* the review container of the element with this text
Container(t) ==
    CASE t \in {1, 2, 5} -> [EmptyContainer EXCEPT !.amazonEl = TRUE, !.amazonClass = 5,
                                                   !.iconEl = TRUE, !.iconClass = 5]
      [] t = 3 -> [EmptyContainer EXCEPT !.amazonEl = TRUE, !.amazonAlt = 300]
      [] t = 4 -> [EmptyContainer EXCEPT !.dataRating = 120]
      [] t = 7 -> EmptyContainer
      [] t = 10 -> [EmptyContainer EXCEPT !.aria = 0]
      [] t = 11 -> [EmptyContainer EXCEPT !.dataRating = 900]
      [] OTHER -> [EmptyContainer EXCEPT !.filled = 4]

\* what extractStarRating returns for the review container of the element
\* with this text: Null when no step matches, else an integer, which a class
\* digit, a data-rating attribute or a label can put outside 1..5
RawStars(t) == extractStarRating(Container(t))

\* the JSON body of a 2xx answer of POST /analyze for this text; a field the
\* body lacks is Null (number) or present |-> FALSE (object)
ResponseBody(t) ==
    CASE t = 1 -> [adjusted_rating |-> 22,
                   credibility |-> [present |-> TRUE, classification |-> "bot", score |-> 10],
                   sarcasm |-> [present |-> TRUE, is_sarcastic |-> FALSE]]
      [] t = 2 -> [adjusted_rating |-> 484,
                   credibility |-> [present |-> TRUE, classification |-> "human", score |-> 90],
                   sarcasm |-> [present |-> TRUE, is_sarcastic |-> FALSE]]
      [] t = 3 -> [adjusted_rating |-> 364,
                   credibility |-> [present |-> TRUE, classification |-> "human", score |-> 85],
                   sarcasm |-> [present |-> TRUE, is_sarcastic |-> FALSE]]
      [] t = 4 -> [adjusted_rating |-> 132,
                   credibility |-> [present |-> TRUE, classification |-> "human", score |-> 80],
                   sarcasm |-> [present |-> TRUE, is_sarcastic |-> FALSE]]
      [] t = 5 -> [adjusted_rating |-> 160,
                   credibility |-> [present |-> FALSE, classification |-> "", score |-> Null],
                   sarcasm |-> [present |-> TRUE, is_sarcastic |-> TRUE]]
      [] t = 6 -> [adjusted_rating |-> 0,
                   credibility |-> [present |-> TRUE, classification |-> "low_effort", score |-> 45],
                   sarcasm |-> [present |-> FALSE, is_sarcastic |-> FALSE]]
      [] t = 7 -> [adjusted_rating |-> Null,
                   credibility |-> [present |-> TRUE, classification |-> "low_effort", score |-> 0],
                   sarcasm |-> [present |-> TRUE, is_sarcastic |-> FALSE]]
      [] OTHER -> [adjusted_rating |-> 400,
                   credibility |-> [present |-> TRUE, classification |-> "human", score |-> 90],
                   sarcasm |-> [present |-> TRUE, is_sarcastic |-> FALSE]]

\* the texts of a page of n accepted, distinct review elements
LongTexts(n) == [k \in 1..n |-> 1000 + k]

\* how many selectors the list of extractReviews has
NumSelectors == 26

\* the review elements of the page that two selectors match, in document
\* order, each with the position in the selector list of the selector that
\* matches it (20: [class*="review-text"], 1: [data-hook="review-body"])
MixedElements ==
    <<[text |-> 21, selector |-> 20], [text |-> 22, selector |-> 1],
      [text |-> 23, selector |-> 20], [text |-> 24, selector |-> 1]>>

\* for (const selector of selectors) document.querySelectorAll(selector)
\*     .forEach(...): the texts in the order the loops visit them, from
\* selector s on
RECURSIVE VisitOrder(_, _)
VisitOrder(els, s) ==
    IF s > NumSelectors THEN <<>>
    ELSE TextsOf(SelectSeq(els, LAMBDA e : e.selector = s)) \o VisitOrder(els, s + 1)

\* A host page: which table keywords window.location.hostname contains, which
\* path markers the URL contains, what the rating selectors find, and the
\* texts of the elements the selector loops visit, in visiting order.
Page(p) ==
    CASE p = 1 -> [hostHas |-> {"amazon"}, urlHas |-> {"reviews"},
                   paginationBar |-> TRUE, nextEnabled |-> TRUE,
                   seeAllLink |-> FALSE, totalReviews |-> 0,
                   ratingText |-> 470, starClass |-> Null,
                   matches |-> <<1, 2, 4, 5>>]
      [] p = 2 -> [hostHas |-> {}, urlHas |-> {},
                   paginationBar |-> FALSE, nextEnabled |-> FALSE,
                   seeAllLink |-> FALSE, totalReviews |-> 0,
                   ratingText |-> Null, starClass |-> Null,
                   matches |-> <<1, 2, 3, 4>>]
      [] p = 3 -> [hostHas |-> {"amazon"}, urlHas |-> {"product"},
                   paginationBar |-> FALSE, nextEnabled |-> FALSE,
                   seeAllLink |-> TRUE, totalReviews |-> 1200,
                   ratingText |-> Null, starClass |-> 450,
                   matches |-> <<>>]
      [] p = 4 -> [hostHas |-> {"yelp"}, urlHas |-> {},
                   paginationBar |-> FALSE, nextEnabled |-> FALSE,
                   seeAllLink |-> FALSE, totalReviews |-> 0,
                   ratingText |-> Null, starClass |-> Null,
                   matches |-> <<2, 6, 2, 8, 9, 7, 10, 11, 12, 13>>]
      [] p = 6 -> [hostHas |-> {"amazon"}, urlHas |-> {"reviews"},
                   paginationBar |-> FALSE, nextEnabled |-> FALSE,
                   seeAllLink |-> FALSE, totalReviews |-> 0,
                   ratingText |-> 0, starClass |-> Null,
                   matches |-> <<2, 3>>]
      [] p = 7 -> [hostHas |-> {}, urlHas |-> {},
                   paginationBar |-> FALSE, nextEnabled |-> FALSE,
                   seeAllLink |-> FALSE, totalReviews |-> 0,
                   ratingText |-> Null, starClass |-> Null,
                   matches |-> VisitOrder(MixedElements, 1)]
      [] p = 8 -> [hostHas |-> {"amazon"}, urlHas |-> {},
                   paginationBar |-> FALSE, nextEnabled |-> FALSE,
                   seeAllLink |-> FALSE, totalReviews |-> 0,
                   ratingText |-> 430, starClass |-> Null,
                   matches |-> <<2, 3>>]
      [] p = 9 -> [hostHas |-> {"trustpilot"}, urlHas |-> {},
                   paginationBar |-> FALSE, nextEnabled |-> FALSE,
                   seeAllLink |-> FALSE, totalReviews |-> 0,
                   ratingText |-> Null, starClass |-> Null,
                   matches |-> <<3, 4>>]
      [] p = 10 -> [hostHas |-> {"tripadvisor"}, urlHas |-> {"reviews"},
                   paginationBar |-> FALSE, nextEnabled |-> FALSE,
                   seeAllLink |-> FALSE, totalReviews |-> 0,
                   ratingText |-> Null, starClass |-> Null,
                   matches |-> <<4, 6>>]
      [] p >= 100 -> [hostHas |-> {}, urlHas |-> {},
                   paginationBar |-> FALSE, nextEnabled |-> FALSE,
                   seeAllLink |-> FALSE, totalReviews |-> 0,
                   ratingText |-> Null, starClass |-> Null,
                   matches |-> LongTexts(p - 100)]
      [] OTHER -> [hostHas |-> {}, urlHas |-> {},
                   paginationBar |-> FALSE, nextEnabled |-> FALSE,
                   seeAllLink |-> FALSE, totalReviews |-> 0,
                   ratingText |-> Null, starClass |-> Null,
                   matches |-> BigTexts]

PageIds == 1..6

\* what the page has become when a load-more looks again after scrolling /
\* paging, if it changed at all
NextPage(p) ==
    CASE p = 1 -> 2
      [] p = 2 -> 4
      [] p = 4 -> 1
      [] OTHER -> p

\* the review elements of a page in document order: only the mixed page has
\* elements that different selectors of the list match
DocumentOrder(p) == IF p = 7 THEN TextsOf(MixedElements) ELSE Page(p).matches

\* window.getSelection().toString().trim(): nothing selected, or a text
NoSelection == 0

\* the pages and selections extractReviews and detectPageType are applied to
\* on their own
ExtractPages == (1..10) \cup {100 + n : n \in 0..MaxLongPage}
ExtractSels == {NoSelection, 2, 9, 14}

\* the <<page, selection>> pairs a first extraction can find
FirstViews == {<<1, NoSelection>>, <<1, 2>>, <<2, NoSelection>>, <<3, NoSelection>>,
               <<3, 2>>, <<4, 9>>, <<5, NoSelection>>, <<6, NoSelection>>}


(***************************************************************************)
(* Content script / bookmarklet: page classification and extraction        *)
(***************************************************************************)
\* JavaScript truthiness of a number-or-null slot: null, undefined and 0 are falsy
Truthy(x) == x # Null /\ x # 0

\* the overall rating the Amazon branch of detectPageType reads off the page:
\* the first "N out of" text, else (when that is falsy) the a-star-N-M class
DisplayedRatingOf(pg) ==
    IF Truthy(pg.ratingText) THEN pg.ratingText
    ELSE IF pg.starClass # Null THEN pg.starClass
    ELSE pg.ratingText

\* the record detectPageType returns when a branch sets none of the optional
\* fields (undefined reads as FALSE / 0 / Null)
PlainInfo(site, type) ==
    [site |-> site, type |-> type, hasMorePages |-> FALSE, reviewsUrl |-> FALSE,
     totalReviews |-> 0, displayedRating |-> Null]

\* the hostname checks after the Amazon block of the content script
ContentSiteFallthrough(pg) ==
    IF "yelp" \in pg.hostHas THEN PlainInfo("yelp", "reviews")
    ELSE IF "tripadvisor" \in pg.hostHas THEN PlainInfo("tripadvisor", "reviews")
    ELSE IF "trustpilot" \in pg.hostHas THEN PlainInfo("trustpilot", "reviews")
    ELSE PlainInfo("unknown", "unknown")

\* content.js detectPageType
detectPageType(pg) ==
    IF "amazon" \in pg.hostHas /\ "reviews" \in pg.urlHas
    THEN [PlainInfo("amazon", "reviews") EXCEPT
            !.hasMorePages = pg.nextEnabled,
            !.displayedRating = DisplayedRatingOf(pg)]
    ELSE IF "amazon" \in pg.hostHas /\ "product" \in pg.urlHas
    THEN [PlainInfo("amazon", "product") EXCEPT
            !.reviewsUrl = pg.seeAllLink,
            !.totalReviews = pg.totalReviews,
            !.displayedRating = DisplayedRatingOf(pg)]
    ELSE ContentSiteFallthrough(pg)

\* bookmarklet detectPageType: no displayed rating, no Trustpilot entry
bmDetectPageType(pg) ==
    IF "amazon" \in pg.hostHas /\ "reviews" \in pg.urlHas
    THEN [PlainInfo("amazon", "reviews") EXCEPT !.hasMorePages = pg.paginationBar]
    ELSE IF "amazon" \in pg.hostHas /\ "product" \in pg.urlHas
    THEN [PlainInfo("amazon", "product") EXCEPT
            !.reviewsUrl = pg.seeAllLink,
            !.totalReviews = pg.totalReviews]
    ELSE IF "yelp" \in pg.hostHas THEN PlainInfo("yelp", "reviews")
    ELSE IF "tripadvisor" \in pg.hostHas THEN PlainInfo("tripadvisor", "reviews")
    ELSE PlainInfo("unknown", "unknown")

\* as AcceptText, with both ends of the interval let in
AcceptTextClosed(t) == TextLen(t) >= MinTextLen /\ TextLen(t) <= MaxTextLen

\* text && text.length > 20 && text.length < 5000
AcceptText(t) == TextLen(t) > MinTextLen /\ TextLen(t) < MaxTextLen

\* as ClampStars, with the resolved rating taken as it is
ClampStarsForgotten(raw) == IF raw # Null THEN raw ELSE DefaultStars

\* let stars = 3; if (extractedStars !== null) stars = extractedStars;
\* Math.min(5, Math.max(1, Math.round(stars)))
ClampStars(raw) == Min(5, Max(1, IF raw # Null THEN raw ELSE DefaultStars))

\* as StarsFor, with the resolved rating passed on as it is
StarsForUnclamped(t) == IF RawStars(t) # Null THEN RawStars(t) ELSE DefaultStars

\* the stars of the candidate made from the element with this text
StarsFor(t) == ClampStars(RawStars(t))

\* !reviews.some(r => r.text === text)
HasText(reviews, t) == \E k \in 1..Len(reviews) : reviews[k].text = t

\* the selector loops of extractReviews over the matched elements
RECURSIVE CollectReviews(_, _)
CollectReviews(matches, reviews) ==
    IF matches = <<>> THEN reviews
    ELSE LET t == Head(matches)
         IN  IF AcceptText(t) /\ ~HasText(reviews, t)
             THEN CollectReviews(Tail(matches),
                                 Append(reviews, [text |-> t, stars |-> StarsFor(t)]))
             ELSE CollectReviews(Tail(matches), reviews)

\* as WithSelection, with the selection put last
WithSelectionAppended(reviews, selection) ==
    IF selection # NoSelection /\ TextLen(selection) > MinTextLen
    THEN Append(reviews, [text |-> selection, stars |-> DefaultStars])
    ELSE reviews

\* if (selection && selection.length > 20) reviews.unshift({text: selection, stars: 3})
WithSelection(reviews, selection) ==
    IF selection # NoSelection /\ TextLen(selection) > MinTextLen
    THEN <<[text |-> selection, stars |-> DefaultStars]>> \o reviews
    ELSE reviews

\* as extractReviews, with the final slice forgotten
extractReviewsUncapped(p, selection) ==
    WithSelection(CollectReviews(Page(p).matches, <<>>), selection)

\* as extractReviews, with what the session has analyzed left out
extractReviewsSkippingAnalyzed(p, selection) ==
    SelectSeq(Slice(WithSelection(CollectReviews(Page(p).matches, <<>>), selection), MaxExtract),
              LAMBDA r : \A k \in 1..Len(currentResults) : currentResults[k].text # r.text)

\* extractReviews of the content script and of the bookmarklet (same code)
extractReviews(p, selection) ==
    Slice(WithSelection(CollectReviews(Page(p).matches, <<>>), selection), MaxExtract)

(***************************************************************************)
(* Scoring: one analyzeReviews iteration, and the aggregate                *)
(***************************************************************************)
\* what one fetch + response.json() can end as
Outcomes == {"ok", "non2xx", "neterr", "badjson"}

\* body: JSON.stringify({ text: review.text, stars: review.stars })
RequestBody(review) == [text |-> review.text, stars |-> review.stars]

\* as BatchOf, with the slice forgotten
BatchOfUnsliced(reviews) == reviews

\* the reviews analyzeReviews loops over: reviews.slice(0, 20)
BatchOf(reviews) == Slice(reviews, MaxAnalyze)

\* the entry pushed for a review on a 2xx answer with body data
MakeEntry(review, data) ==
    [text |-> review.text,
     stars |-> review.stars,
     weighted_rating |-> data.adjusted_rating,
     credibility_label |->
        IF data.credibility.present /\ data.credibility.classification # ""
        THEN data.credibility.classification ELSE "unknown",
     credibility_score |->
        IF data.credibility.present /\ Truthy(data.credibility.score)
        THEN data.credibility.score ELSE 0,
     is_sarcastic |-> data.sarcasm.present /\ data.sarcasm.is_sarcastic]

\* as PushResult, with the newest entry put first
PushResultFront(results, review, outcome) ==
    IF outcome = "ok" THEN <<MakeEntry(review, ResponseBody(review.text))>> \o results
    ELSE results

\* results after the loop body ran for review with this outcome
PushResult(results, review, outcome) ==
    IF outcome = "ok" THEN Append(results, MakeEntry(review, ResponseBody(review.text)))
    ELSE results

\* exact rationals
Rat(n, d) == [num |-> n, den |-> d]
RatSub(a, b) == Rat(a.num * b.den - b.num * a.den, a.den * b.den)
RatEq(a, b) == a.num * b.den = b.num * a.den
RatLess(a, b) == a.num * b.den < b.num * a.den

\* r.weighted_rating || r.stars, in hundredths
TrueTerm(r) == IF Truthy(r.weighted_rating) THEN r.weighted_rating ELSE 100 * r.stars

\* results.reduce((sum, r) => sum + r.stars, 0) / results.length, in hundredths
MeanStars(results) ==
    Rat(Sum([k \in 1..Len(results) |-> 100 * results[k].stars]), Len(results))

\* as calculateTruthGap, with the override applied to the empty list too
calculateTruthGapOverrideFirst(results, displayedRating) ==
    LET avgDisplayed == IF Truthy(displayedRating) THEN Rat(displayedRating, 1)
                        ELSE IF Len(results) = 0 THEN Rat(0, 1)
                        ELSE MeanStars(results)
        avgTrue == IF Len(results) = 0 THEN Rat(0, 1)
                   ELSE Rat(Sum([k \in 1..Len(results) |-> TrueTerm(results[k])]),
                            Len(results))
    IN  [gap |-> RatSub(avgDisplayed, avgTrue),
         avgDisplayed |-> avgDisplayed,
         avgTrue |-> avgTrue]

\* popup calculateTruthGap(results, displayedRating); the bookmarklet's is
\* the same with displayedRating = null
calculateTruthGap(results, displayedRating) ==
    IF Len(results) = 0
    THEN [gap |-> Rat(0, 1), avgDisplayed |-> Rat(0, 1), avgTrue |-> Rat(0, 1)]
    ELSE LET avgDisplayed == IF Truthy(displayedRating) THEN Rat(displayedRating, 1)
                             ELSE MeanStars(results)
             avgTrue == Rat(Sum([k \in 1..Len(results) |-> TrueTerm(results[k])]),
                            Len(results))
         IN  [gap |-> RatSub(avgDisplayed, avgTrue),
              avgDisplayed |-> avgDisplayed,
              avgTrue |-> avgTrue]

\* results.filter(r => r.credibility_label === label).length
CountLabel(results, label) ==
    Cardinality({k \in 1..Len(results) : results[k].credibility_label = label})

\* credCounts of renderResults plus results.length
credCounts(results) ==
    [human |-> CountLabel(results, "human"),
     bot |-> CountLabel(results, "bot"),
     lowEffort |-> CountLabel(results, "low_effort"),
     total |-> Len(results)]

\* as gapClass, with the two limits counted to the outer bands
gapClassInclusive(gap) ==
    IF ~RatLess(gap, Rat(50, 1)) THEN "positive"
    ELSE IF ~RatLess(Rat(-50, 1), gap) THEN "negative"
    ELSE "neutral"

\* gap > 0.5 ? ... : gap < -0.5 ? ... : ...
gapClass(gap) ==
    IF RatLess(Rat(50, 1), gap) THEN "positive"
    ELSE IF RatLess(gap, Rat(-50, 1)) THEN "negative"
    ELSE "neutral"

\* as ReportOf, with the figures taken from the five reviews listed only
ReportOfListed(results, displayedRating) ==
    LET g == calculateTruthGap(Slice(results, 5), displayedRating)
    IN  [gap |-> g.gap, avgDisplayed |-> g.avgDisplayed, avgTrue |-> g.avgTrue,
         counts |-> credCounts(Slice(results, 5)), band |-> gapClass(g.gap),
         sample |-> Slice(results, 5)]

\* what renderResults puts on screen for a non-empty or empty result list
ReportOf(results, displayedRating) ==
    LET g == calculateTruthGap(results, displayedRating)
    IN  [gap |-> g.gap, avgDisplayed |-> g.avgDisplayed, avgTrue |-> g.avgTrue,
         counts |-> credCounts(results), band |-> gapClass(g.gap),
         sample |-> Slice(results, 5)]


(***************************************************************************)
(* State                                                                   *)
(***************************************************************************)
vars == <<surface, dom, sel, isLoading, currentResults, allExtractedReviews,
          pageInfo, screen, btn, report, proc, failures, failedTexts,
          clicks, rejected, closed, arg, ret>>

Handlers == 1..MaxHandlers

IdleProc ==
    [kind |-> "none", pc |-> "idle", reviews |-> <<>>, i |-> 0, results |-> <<>>,
     sent |-> <<>>, bodies |-> <<>>, oks |-> <<>>, same |-> FALSE,
     info |-> PlainInfo("unknown", "unknown")]

\* a handler activation that has just passed its guard
StartedProc(kind) == [IdleProc EXCEPT !.kind = kind, !.pc = "extract"]

NoReport == ReportOf(<<>>, Null)

\* the activations that are between their start and their completion
InFlight == {h \in Handlers : proc[h].kind # "none"}

HasFreeSlot == InFlight # Handlers
FreeSlot == CHOOSE h \in Handlers : proc[h].kind = "none" /\
                \A g \in Handlers : proc[g].kind = "none" => h <= g

\* what an extraction can find: any first view the first time; later the
\* page and selection unchanged, or the page it turned into with the
\* selection gone
ViewsNow == IF dom = 0 THEN FirstViews
            ELSE {<<dom, sel>>, <<NextPage(dom), NoSelection>>}

Init ==
    /\ surface \in {"popup", "bookmarklet"}
    /\ dom = 0
    /\ sel = NoSelection
    /\ isLoading = FALSE
    /\ currentResults = <<>>
    /\ allExtractedReviews = <<>>
    /\ pageInfo = PlainInfo("unknown", "unknown")
    /\ screen = IF surface = "popup" THEN "initial" ELSE "status"
    /\ btn = [shown |-> FALSE, disabled |-> FALSE, label |-> "load"]
    /\ report = NoReport
    \* the bookmarklet calls run() as it loads; the popup waits for a click
    /\ proc = [h \in Handlers |->
                 IF surface = "bookmarklet" /\ h = 1 THEN StartedProc("run")
                 ELSE IdleProc]
    /\ failures = 0
    /\ failedTexts = {}
    /\ clicks = 0
    /\ rejected = FALSE
    /\ closed = FALSE
    /\ arg = Null
    /\ ret = <<>>

(***************************************************************************)
(* Shared pieces of the handlers                                           *)
(***************************************************************************)
\* as Finally, without the finally block: a thrown error leaves the flag set
FinallyMissing(path) == path = "catch"

\* finally { isLoading = false } (bookmarklet: isLoadingMore): the flag after
\* the handler left its try block at its end, by a return or through catch
Finally(path) == FALSE

\* as Busy, with the guard never taken
BusyNever == FALSE

\* if (isLoading) return;   /   if (isLoadingMore) return;
Busy == isLoading

\* as NewReviews, also dropping the texts whose call failed before
NewReviewsNotFailed(reviews, results) ==
    SelectSeq(reviews, LAMBDA r : ~HasText(results, r.text) /\ r.text \notin failedTexts)

\* as NewReviews, dropping every text that was handed on before
NewReviewsNotExtracted(reviews, results) ==
    SelectSeq(reviews, LAMBDA r : ~HasText(results, r.text)
                                  /\ ~HasText(allExtractedReviews, r.text))

\* new Set(currentResults.map(r => r.text)), then filter(r => !existingTexts.has(r.text))
NewReviews(reviews, results) ==
    SelectSeq(reviews, LAMBDA r : ~HasText(results, r.text))

\* as NoMoreButton, with the text of the catch branch
NoMoreButtonFailed(b) == [b EXCEPT !.label = "failed", !.disabled = FALSE]

\* btn.innerHTML = 'No more reviews found': the bookmarklet leaves the
\* button disabled, the popup's finally enables it again
NoMoreButton(b) == [b EXCEPT !.label = "nomore", !.disabled = (surface = "bookmarklet")]

\* as MergeResults, with the new results replacing the old ones
MergeResultsReplace(results, newResults) == newResults

\* currentResults = [...currentResults, ...newResults]
MergeResults(results, newResults) == results \o newResults

\* as NextIndex, with a failed call ending the loop
NextIndexAbort(i, outcome) == IF outcome = "ok" THEN i + 1 ELSE i + MaxExtract

\* the index the for-of loop of analyzeReviews goes to after an iteration
NextIndex(i, outcome) == i + 1

\* the texts of the batch whose call did not yield an entry
FailedIn(pr) == {BatchOf(pr.reviews)[k].text : k \in {j \in 1..Len(pr.oks) : ~pr.oks[j]}}

\* a handler activation entering analyzeReviews(reviews); view is the page
\* and selection the extraction just saw (same: they are what the previous
\* extraction saw)
EnterAnalyze(pr, reviews, info, view) ==
    [pr EXCEPT !.pc = IF BatchOf(reviews) = <<>> THEN "finish" ELSE "fetch",
               !.reviews = reviews, !.i = 1, !.results = <<>>, !.sent = <<>>, !.bodies = <<>>,
               !.oks = <<>>, !.info = info, !.same = (view = <<dom, sel>>)]

\* one iteration of the loop of analyzeReviews: the fetch is sent and its
\* answer (or its failure) comes back
Fetch(h) ==
    /\ proc[h].pc = "fetch"
    /\ LET pr == proc[h]
           batch == BatchOf(pr.reviews)
           review == batch[pr.i]
       IN  \E outcome \in Outcomes :
             /\ outcome # "ok" => failures < MaxFailures
             /\ LET next == NextIndex(pr.i, outcome)
                IN  proc' = [proc EXCEPT ![h] =
                         [pr EXCEPT !.results = PushResult(pr.results, review, outcome),
                                    !.sent = Append(pr.sent, review.text),
                                    !.bodies = Append(pr.bodies, RequestBody(review)),
                                    !.oks = Append(pr.oks, outcome = "ok"),
                                    !.i = next,
                                    !.pc = IF next > Len(batch) THEN "finish" ELSE "fetch"]]
             /\ failures' = IF outcome = "ok" THEN failures ELSE failures + 1
    /\ UNCHANGED <<surface, closed, arg, ret, dom, sel, isLoading, currentResults, allExtractedReviews,
                   pageInfo, screen, btn, report, failedTexts, clicks, rejected>>

\* an iteration of the loop whose fetch is sent and never settles: the code
\* passes no signal and no timeout, so the await never returns and the
\* activation stays where it is
FetchHangs(h) ==
    /\ proc[h].pc = "fetch"
    /\ LET pr == proc[h]
           review == BatchOf(pr.reviews)[pr.i]
       IN  proc' = [proc EXCEPT ![h] =
                      [pr EXCEPT !.sent = Append(pr.sent, review.text),
                                 !.bodies = Append(pr.bodies, RequestBody(review)),
                                 !.pc = "hung"]]
    /\ UNCHANGED <<surface, closed, arg, ret, dom, sel, isLoading, currentResults,
                   allExtractedReviews, pageInfo, screen, btn, report, failures,
                   failedTexts, clicks, rejected>>


(***************************************************************************)
(* Extension popup                                                         *)
(***************************************************************************)
\* renderResults(results) of the popup: the report from the global pageInfo
\* (given as info), results shown, load-more button hidden
PopupRendered(results, info) ==
    /\ report' = ReportOf(results, info.displayedRating)
    /\ screen' = "results"

\* a click on the analyze or retry button reaches handleAnalyze
PopupAnalyzeClick ==
    /\ surface = "popup"
    /\ IF Busy
       THEN /\ rejected' = TRUE
            /\ UNCHANGED <<isLoading, screen, proc, clicks>>
       ELSE /\ HasFreeSlot /\ clicks < MaxClicks
            /\ clicks' = clicks + 1
            /\ UNCHANGED rejected
            /\ isLoading' = TRUE
            /\ screen' = "loading"
            /\ proc' = [proc EXCEPT ![FreeSlot] = StartedProc("analyze")]
    /\ UNCHANGED <<surface, closed, arg, ret, dom, sel, currentResults, allExtractedReviews, pageInfo,
                   btn, report, failures, failedTexts>>

\* handleAnalyze, from the tab query to the answer of the content script:
\* the message fails, or the page has no reviews, or analyzeReviews starts
PopupAnalyzeExtract(h) ==
    /\ proc[h].kind = "analyze" /\ proc[h].pc = "extract"
    /\ \/ \* catch: "Could not connect to page" / "Failed to extract reviews"
          /\ screen' = "error"
          /\ isLoading' = Finally("catch")
          /\ proc' = [proc EXCEPT ![h] = IdleProc]
          /\ UNCHANGED <<dom, sel, pageInfo, ret>>
       \/ \E view \in ViewsNow :
            LET p == view[1]
                s == view[2]
                reviews == extractReviews(p, s)
                info == detectPageType(Page(p))
            IN  /\ dom' = p
                /\ sel' = s
                /\ ret' = extractReviews(p, s)
                /\ pageInfo' = info
                /\ IF Len(reviews) = 0
                   THEN \* handleNoReviews(); return; finally
                        /\ screen' = "noReviews"
                        /\ isLoading' = Finally("return")
                        /\ proc' = [proc EXCEPT ![h] = IdleProc]
                   ELSE /\ proc' = [proc EXCEPT ![h] = EnterAnalyze(proc[h], reviews, info, view)]
                        /\ UNCHANGED <<screen, isLoading>>
    /\ UNCHANGED <<surface, closed, arg, currentResults, allExtractedReviews, btn, report,
                   failures, failedTexts, clicks>>
    /\ rejected' = (rejected /\ proc'[h].kind # "none")

\* handleAnalyze after analyzeReviews returned
PopupAnalyzeFinish(h) ==
    /\ proc[h].kind = "analyze" /\ proc[h].pc = "finish"
    /\ currentResults' = proc[h].results
    /\ IF Len(proc[h].results) = 0
       THEN \* throw new Error('API analysis failed...'); catch
            /\ screen' = "error"
            /\ UNCHANGED <<report, btn>>
       ELSE /\ PopupRendered(proc[h].results, pageInfo)
            /\ btn' = [btn EXCEPT !.shown = FALSE]
    /\ isLoading' = Finally(IF Len(proc[h].results) = 0 THEN "catch" ELSE "end")
    /\ failedTexts' = failedTexts \cup FailedIn(proc[h])
    /\ proc' = [proc EXCEPT ![h] = IdleProc]
    /\ UNCHANGED <<surface, closed, arg, ret, dom, sel, allExtractedReviews, pageInfo, failures,
                   clicks>>
    /\ rejected' = FALSE

\* a click on the load-more button reaches the popup's handleLoadMore
PopupLoadMoreClick ==
    /\ surface = "popup"
    /\ IF Busy
       THEN /\ rejected' = TRUE
            /\ UNCHANGED <<isLoading, btn, proc, clicks>>
       ELSE /\ HasFreeSlot /\ clicks < MaxClicks
            /\ clicks' = clicks + 1
            /\ UNCHANGED rejected
            /\ isLoading' = TRUE
            /\ btn' = [btn EXCEPT !.disabled = TRUE, !.label = "loading"]
            /\ proc' = [proc EXCEPT ![FreeSlot] = StartedProc("loadMore")]
    /\ UNCHANGED <<surface, closed, arg, ret, dom, sel, currentResults, allExtractedReviews, pageInfo,
                   screen, report, failures, failedTexts>>

\* popup handleLoadMore up to the answer of the content script's
\* handleLoadMore (a re-extraction of the page as it is now)
PopupLoadMoreExtract(h) ==
    /\ surface = "popup"
    /\ proc[h].kind = "loadMore" /\ proc[h].pc = "extract"
    /\ \/ \* catch: the message could not be delivered
          /\ btn' = [btn EXCEPT !.label = "failed", !.disabled = FALSE]
          /\ isLoading' = Finally("catch")
          /\ proc' = [proc EXCEPT ![h] = IdleProc]
          /\ UNCHANGED <<dom, sel, ret>>
       \/ \E view \in ViewsNow :
            LET p == view[1]
                s == view[2]
                newReviews == NewReviews(extractReviews(p, s), currentResults)
            IN  /\ dom' = p
                /\ sel' = s
                /\ ret' = extractReviews(p, s)
                /\ IF Len(newReviews) > 0
                   THEN /\ proc' = [proc EXCEPT ![h] =
                               EnterAnalyze(proc[h], newReviews, detectPageType(Page(p)), view)]
                        /\ UNCHANGED <<btn, isLoading>>
                   ELSE /\ btn' = NoMoreButton(btn)
                        /\ isLoading' = Finally("end")
                        /\ proc' = [proc EXCEPT ![h] = IdleProc]
    /\ UNCHANGED <<surface, closed, arg, currentResults, allExtractedReviews, pageInfo, screen,
                   report, failures, failedTexts, clicks>>
    /\ rejected' = (rejected /\ proc'[h].kind # "none")

\* popup handleLoadMore after analyzeReviews returned
PopupLoadMoreFinish(h) ==
    /\ surface = "popup"
    /\ proc[h].kind = "loadMore" /\ proc[h].pc = "finish"
    /\ currentResults' = MergeResults(currentResults, proc[h].results)
    /\ pageInfo' = proc[h].info
    /\ PopupRendered(currentResults', proc[h].info)
    /\ btn' = [btn EXCEPT !.shown = FALSE, !.disabled = FALSE]
    /\ isLoading' = Finally("end")
    /\ failedTexts' = failedTexts \cup FailedIn(proc[h])
    /\ proc' = [proc EXCEPT ![h] = IdleProc]
    /\ UNCHANGED <<surface, closed, arg, ret, dom, sel, allExtractedReviews, failures, clicks>>
    /\ rejected' = FALSE

(***************************************************************************)
(* Bookmarklet                                                             *)
(***************************************************************************)
\* showLoadMore of renderResults
showLoadMore(info, extracted) == info.type = "reviews" \/ Len(extracted) < MaxExtract

\* renderResults(results, pageInfo) of the bookmarklet
BmRendered(results, info, extracted) ==
    /\ currentResults' = results
    /\ IF Len(results) = 0
       THEN /\ screen' = "noReviews"
            /\ btn' = [shown |-> FALSE, disabled |-> FALSE, label |-> "load"]
            /\ UNCHANGED report
       ELSE /\ screen' = "results"
            /\ report' = ReportOf(results, Null)
            /\ btn' = [shown |-> showLoadMore(info, extracted), disabled |-> FALSE,
                       label |-> "load"]

\* run(), its synchronous start: classify the page and extract
BmRunExtract(h) ==
    /\ proc[h].kind = "run" /\ proc[h].pc = "extract"
    /\ \E view \in ViewsNow :
         LET p == view[1]
             s == view[2]
             reviews == extractReviews(p, s)
             info == bmDetectPageType(Page(p))
         IN  /\ dom' = p
             /\ sel' = s
             /\ ret' = extractReviews(p, s)
             /\ pageInfo' = info
             /\ allExtractedReviews' = reviews
             /\ IF Len(reviews) = 0
                THEN /\ proc' = [proc EXCEPT ![h] = IdleProc]
                     /\ IF info.type = "product" /\ info.reviewsUrl
                        THEN /\ screen' = "productHint"
                             /\ UNCHANGED <<currentResults, btn, report>>
                        ELSE BmRendered(<<>>, info, reviews)
                ELSE /\ proc' = [proc EXCEPT ![h] = EnterAnalyze(proc[h], reviews, info, view)]
                     /\ UNCHANGED <<currentResults, screen, btn, report>>
    /\ UNCHANGED <<surface, closed, arg, isLoading, failures, failedTexts, clicks>>
    /\ rejected' = (rejected /\ proc'[h].kind # "none")

\* run() after analyzeReviews returned
BmRunFinish(h) ==
    /\ proc[h].kind = "run" /\ proc[h].pc = "finish"
    /\ BmRendered(proc[h].results, proc[h].info, allExtractedReviews)
    /\ failedTexts' = failedTexts \cup FailedIn(proc[h])
    /\ proc' = [proc EXCEPT ![h] = IdleProc]
    /\ UNCHANGED <<surface, closed, arg, ret, dom, sel, isLoading, allExtractedReviews, pageInfo,
                   failures, clicks>>
    /\ rejected' = FALSE

\* a click on the rendered, enabled load-more button reaches handleLoadMore
BmLoadMoreClick ==
    /\ surface = "bookmarklet"
    /\ ~closed
    /\ btn.shown /\ ~btn.disabled
    /\ IF Busy
       THEN /\ rejected' = TRUE
            /\ UNCHANGED <<isLoading, btn, proc, clicks>>
       ELSE /\ HasFreeSlot /\ clicks < MaxClicks
            /\ clicks' = clicks + 1
            /\ UNCHANGED rejected
            /\ isLoading' = TRUE
            /\ btn' = [btn EXCEPT !.disabled = TRUE, !.label = "loading"]
            /\ proc' = [proc EXCEPT ![FreeSlot] = StartedProc("loadMore")]
    /\ UNCHANGED <<surface, closed, arg, ret, dom, sel, currentResults, allExtractedReviews, pageInfo,
                   screen, report, failures, failedTexts>>

\* handleLoadMore after scrollToLoadMore and the settling delay: extract
\* again and keep what is not analyzed yet
BmLoadMoreExtract(h) ==
    /\ surface = "bookmarklet"
    /\ proc[h].kind = "loadMore" /\ proc[h].pc = "extract"
    /\ \E view \in ViewsNow :
         LET p == view[1]
             s == view[2]
             additionalReviews == NewReviews(extractReviews(p, s), currentResults)
         IN  /\ dom' = p
             /\ sel' = s
             /\ ret' = extractReviews(p, s)
             /\ IF Len(additionalReviews) > 0
                THEN /\ proc' = [proc EXCEPT ![h] =
                            EnterAnalyze(proc[h], additionalReviews,
                                         bmDetectPageType(Page(p)), view)]
                     /\ UNCHANGED <<btn, isLoading>>
                ELSE /\ btn' = NoMoreButton(btn)
                     /\ isLoading' = Finally("end")
                     /\ proc' = [proc EXCEPT ![h] = IdleProc]
    /\ UNCHANGED <<surface, closed, arg, currentResults, allExtractedReviews, pageInfo, screen,
                   report, failures, failedTexts, clicks>>
    /\ rejected' = (rejected /\ proc'[h].kind # "none")

\* handleLoadMore after analyzeReviews returned: merge and render again
BmLoadMoreFinish(h) ==
    /\ surface = "bookmarklet"
    /\ proc[h].kind = "loadMore" /\ proc[h].pc = "finish"
    /\ allExtractedReviews' = allExtractedReviews \o proc[h].reviews
    /\ pageInfo' = proc[h].info
    /\ BmRendered(MergeResults(currentResults, proc[h].results), proc[h].info,
                  allExtractedReviews')
    /\ isLoading' = Finally("end")
    /\ failedTexts' = failedTexts \cup FailedIn(proc[h])
    /\ proc' = [proc EXCEPT ![h] = IdleProc]
    /\ UNCHANGED <<surface, closed, arg, ret, dom, sel, failures, clicks>>
    /\ rejected' = FALSE

(***************************************************************************)
(* The aggregate applied to analyzed lists of every shape                  *)
(***************************************************************************)
\* the entry analyzeReviews pushes for the element with text t
AggEntry(t) == MakeEntry([text |-> t, stars |-> StarsFor(t)], ResponseBody(t))

\* the analyzed lists given to the aggregate: up to MaxAggLen entries
AggLists ==
    UNION {{[k \in 1..n |-> AggEntry(f[k])] : f \in [1..n -> 1..7]} : n \in 0..MaxAggLen}

\* the displayed ratings a page context can carry
AggRatings == {Null, 0, 470, 350, 250}

AggInit ==
    /\ surface \in {"popup", "bookmarklet"}
    /\ dom = 0
    /\ sel = NoSelection
    /\ isLoading = FALSE
    /\ currentResults \in AggLists
    /\ allExtractedReviews = <<>>
    /\ \E d \in AggRatings :
          pageInfo = [PlainInfo("amazon", "reviews") EXCEPT !.displayedRating = d]
    /\ screen = "initial"
    /\ btn = [shown |-> FALSE, disabled |-> FALSE, label |-> "load"]
    /\ report = NoReport
    /\ proc = [h \in Handlers |-> IdleProc]
    /\ failures = 0
    /\ failedTexts = {}
    /\ clicks = 0
    /\ rejected = FALSE
    /\ closed = FALSE
    /\ arg = Null
    /\ ret = Null

\* calculateTruthGap and credCounts applied to the list: the popup passes
\* the page's displayed rating, the bookmarklet has none to pass
AggApply ==
    /\ screen = "initial"
    /\ report' = ReportOf(currentResults,
                          IF surface = "popup" THEN pageInfo.displayedRating ELSE Null)
    /\ screen' = "results"
    /\ UNCHANGED <<surface, closed, arg, ret, dom, sel, isLoading, currentResults, allExtractedReviews,
                   pageInfo, btn, proc, failures, failedTexts, clicks, rejected>>

AggNext == AggApply

AggSpec == AggInit /\ [][AggNext]_vars

(***************************************************************************)
(* extractReviews and detectPageType applied on their own to a page        *)
(***************************************************************************)
ExtractInit ==
    /\ surface \in {"popup", "bookmarklet"}
    /\ dom \in ExtractPages
    /\ sel \in ExtractSels
    /\ isLoading = FALSE
    /\ currentResults = <<>>
    /\ allExtractedReviews = <<>>
    /\ pageInfo = PlainInfo("unknown", "unknown")
    /\ screen = "initial"
    /\ btn = [shown |-> FALSE, disabled |-> FALSE, label |-> "load"]
    /\ report = NoReport
    /\ proc = [h \in Handlers |-> IdleProc]
    /\ failures = 0
    /\ failedTexts = {}
    /\ clicks = 0
    /\ rejected = FALSE
    /\ closed = FALSE
    /\ arg = Null
    /\ ret = Null

\* what the content script answers to the popup (reviews: extractReviews(),
\* pageInfo: detectPageType()), and what the bookmarklet computes in run()
ExtractApply ==
    /\ screen = "initial"
    /\ allExtractedReviews' = extractReviews(dom, sel)
    /\ pageInfo' = IF surface = "popup" THEN detectPageType(Page(dom))
                                        ELSE bmDetectPageType(Page(dom))
    /\ screen' = "applied"
    /\ UNCHANGED <<surface, closed, arg, ret, dom, sel, isLoading, currentResults,
                   report, btn, proc, failures, failedTexts, clicks, rejected>>

ExtractNext == ExtractApply

ExtractSpec == ExtractInit /\ [][ExtractNext]_vars

(***************************************************************************)
(* extractStarRating applied on its own to a container                     *)
(***************************************************************************)
\* the containers tried: every combination of what each step can find
Containers ==
    [amazonEl : BOOLEAN, amazonClass : {Null, 0, 4}, amazonAlt : {Null, 450},
     amazonInner : {Null, 200}, iconEl : BOOLEAN, iconClass : {Null, 9},
     iconAlt : {Null, 349}, dataRating : {Null, 900, -200}, aria : {Null, 0},
     outOf5 : {Null, 250}, filled : {0, 3, 6}]

ResolveInit ==
    /\ surface \in {"popup", "bookmarklet"}
    /\ dom = 0
    /\ sel = NoSelection
    /\ isLoading = FALSE
    /\ currentResults = <<>>
    /\ allExtractedReviews = <<>>
    /\ pageInfo = PlainInfo("unknown", "unknown")
    /\ screen = "initial"
    /\ btn = [shown |-> FALSE, disabled |-> FALSE, label |-> "load"]
    /\ report = NoReport
    /\ proc = [h \in Handlers |-> IdleProc]
    /\ failures = 0
    /\ failedTexts = {}
    /\ clicks = 0
    /\ rejected = FALSE
    /\ closed = FALSE
    /\ arg \in Containers
    /\ ret = Null

\* const extractedStars = extractStarRating(reviewContainer) and the stars
\* the candidate gets from it
ResolveApply ==
    /\ screen = "initial"
    /\ ret' = [extractedStars |-> extractStarRating(arg),
               stars |-> ClampStars(extractStarRating(arg))]
    /\ screen' = "applied"
    /\ UNCHANGED <<surface, closed, arg, dom, sel, isLoading, currentResults,
                   allExtractedReviews, pageInfo, report, btn, proc, failures,
                   failedTexts, clicks, rejected>>

ResolveNext == ResolveApply

ResolveSpec == ResolveInit /\ [][ResolveNext]_vars

\* the close button of the overlay: document.getElementById(OVERLAY_ID).remove().
\* The closure, its state and its pending awaits live on; what is rendered
\* afterwards goes into the detached overlay.
BmClose ==
    /\ surface = "bookmarklet"
    /\ ~closed
    /\ closed' = TRUE
    /\ UNCHANGED <<surface, dom, sel, isLoading, currentResults, allExtractedReviews,
                   pageInfo, screen, btn, report, proc, failures, failedTexts,
                   clicks, rejected, arg, ret>>

Next ==
    \/ PopupAnalyzeClick
    \/ PopupLoadMoreClick
    \/ BmLoadMoreClick
    \/ BmClose
    \/ \E h \in Handlers :
         \/ Fetch(h)
         \/ FetchHangs(h)
         \/ PopupAnalyzeExtract(h)
         \/ PopupAnalyzeFinish(h)
         \/ PopupLoadMoreExtract(h)
         \/ PopupLoadMoreFinish(h)
         \/ BmRunExtract(h)
         \/ BmRunFinish(h)
         \/ BmLoadMoreExtract(h)
         \/ BmLoadMoreFinish(h)

Spec == Init /\ [][Next]_vars

\* what the event loop does on its own once an awaited promise settles: the
\* continuation of a handler activation
HandlerStep ==
    \E h \in Handlers :
       \/ Fetch(h)
       \/ PopupAnalyzeExtract(h)
       \/ PopupAnalyzeFinish(h)
       \/ PopupLoadMoreExtract(h)
       \/ PopupLoadMoreFinish(h)
       \/ BmRunExtract(h)
       \/ BmRunFinish(h)
       \/ BmLoadMoreExtract(h)
       \/ BmLoadMoreFinish(h)

\* the session with the event loop running every continuation that can run
LiveSpec == Init /\ [][Next]_vars /\ WF_vars(HandlerStep)


(***************************************************************************)
(* Properties                                                              *)
(***************************************************************************)
\* the activations whose analyzeReviews loop has run to its end
Finished == {h \in Handlers : proc[h].pc = "finish"}

\* the candidates of a batch whose call was answered with an entry, in order
RECURSIVE Succeeded(_, _)
Succeeded(batch, oks) ==
    IF batch = <<>> \/ oks = <<>> THEN <<>>
    ELSE IF Head(oks) THEN <<Head(batch)>> \o Succeeded(Tail(batch), Tail(oks))
         ELSE Succeeded(Tail(batch), Tail(oks))

\* the {text, stars} an entry was made for
CandidatesOf(results) ==
    [k \in 1..Len(results) |-> [text |-> results[k].text, stars |-> results[k].stars]]

\* C1: when analyzeReviews has run to its end, every candidate among the
\* first 20 was submitted exactly once, in order, whether or not an earlier
\* call failed (no abort, no retry), and the output has one entry per
\* successful call and none for a failed one.
C1_FailureIsolated ==
    \A h \in Finished :
        LET pr == proc[h]
            batch == Slice(pr.reviews, 20)
        IN  /\ pr.sent = TextsOf(batch)
            /\ Len(pr.oks) = Len(batch)
            /\ Len(pr.results) = Cardinality({k \in 1..Len(pr.oks) : pr.oks[k]})

\* C1 witness: a finished batch of several candidates in which a call that
\* was not the last one failed
C1_Witness ==
    \E h \in Finished :
        /\ Len(proc[h].oks) >= 3
        /\ \E k \in 1..(Len(proc[h].oks) - 1) : ~proc[h].oks[k]
        /\ Len(proc[h].results) = Len(proc[h].oks) - 1

\* C2: the output of analyzeReviews is the subsequence of the submitted
\* candidates whose call succeeded, in their original relative order.
C2_OutputIsSuccessSubsequence ==
    \A h \in Finished :
        CandidatesOf(proc[h].results) = Succeeded(Slice(proc[h].reviews, 20), proc[h].oks)

\* C2 witness: a finished batch where a failed call lies between two
\* successful ones
C2_Witness ==
    \E h \in Finished :
        \E a, b, c \in 1..Len(proc[h].oks) :
            a < b /\ b < c /\ proc[h].oks[a] /\ ~proc[h].oks[b] /\ proc[h].oks[c]

\* C8: one analyzeReviews call submits at most 20 requests, and they are
\* for the first candidates of its input, in input order.
C8_AtMostTwentySubmitted ==
    \A h \in Handlers :
        /\ Len(proc[h].sent) <= 20
        /\ IsPrefix(proc[h].sent, TextsOf(proc[h].reviews))

\* C8 witness: a finished call whose input had more than 20 candidates
C8_Witness ==
    \E h \in Finished : Len(proc[h].reviews) > 20 /\ Len(proc[h].sent) = 20


\* the activations that run a load-more and have extracted
LoadMoreExtracted ==
    {h \in Handlers : proc[h].kind = "loadMore" /\ proc[h].pc \in {"fetch", "finish"}}

\* the texts a list of reviews holds
TextSet(s) == {s[k].text : k \in 1..Len(s)}

Unanalyzed(p, s) ==
    SelectSeq(extractReviews(p, s), LAMBDA r : r.text \notin TextSet(currentResults))

sessionVars == <<dom, sel, isLoading, currentResults, allExtractedReviews, pageInfo,
                 screen, btn, report, proc, failures, failedTexts>>

\* C5: while an operation is in flight no click passes the guard, a click
\* that is turned away changes nothing of the session, and never are two
\* operations in flight.
C5_Reentrancy ==
    [][/\ InFlight # {} => clicks' = clicks
       /\ Cardinality(InFlight') <= 1
       /\ (~rejected /\ rejected') => UNCHANGED sessionVars]_vars

\* C5 witness: a click was turned away while analyzeReviews was between two
\* of its calls
C5_Witness ==
    \E h \in Handlers : rejected /\ proc[h].pc = "fetch" /\ proc[h].i > 1

\* C6 as stated: no two analyzed reviews have the same text.
C6_Original == NoDupText(currentResults)

\* C7: every step of a load-more leaves the analyzed reviews it found in
\* place: the old list is a prefix of the new one.
C7_LoadMoreAppendsOnly ==
    [][(\E h \in Handlers : proc[h].kind = "loadMore")
          => IsPrefix(currentResults, currentResults')]_vars

\* C7 witness: a load-more of the bookmarklet has appended to the 20
\* results of the first batch of the long page
C7_Witness ==
    /\ surface = "bookmarklet" /\ InFlight = {} /\ clicks >= 1
    /\ dom = 5 /\ Len(currentResults) > 20

\* C9 as stated: every field the scoring fills in an analyzed review is the
\* value of the answer's field, which the answer therefore carries.
C9_Original ==
    \A k \in 1..Len(currentResults) :
        LET e == currentResults[k]
            data == ResponseBody(e.text)
        IN  /\ data.adjusted_rating # Null /\ e.weighted_rating = data.adjusted_rating
            /\ data.credibility.present
            /\ e.credibility_label = data.credibility.classification
            /\ e.credibility_score = data.credibility.score
            /\ data.sarcasm.present
            /\ e.is_sarcastic = data.sarcasm.is_sarcastic

\* C10 as stated: the true rating shown for a non-empty analyzed set whose
\* entries all carry an adjusted rating is the mean of those adjusted ratings.
C10_Original ==
    (/\ screen = "results"
     /\ Len(currentResults) > 0
     /\ \A k \in 1..Len(currentResults) : currentResults[k].weighted_rating # Null)
        => RatEq(report.avgTrue,
                 Rat(Sum([k \in 1..Len(currentResults) |-> currentResults[k].weighted_rating]),
                     Len(currentResults)))

\* C11 as stated: the displayed rating of the report for a non-empty
\* analyzed set is the page context's displayed rating whenever that is not
\* null, and the unweighted mean of the stars otherwise.
C11_Original ==
    (screen = "results" /\ Len(currentResults) > 0)
        => RatEq(report.avgDisplayed,
                 IF pageInfo.displayedRating # Null
                 THEN Rat(pageInfo.displayedRating, 1)
                 ELSE MeanStars(currentResults))

\* C12 as stated: the gap of every report is its displayed rating minus its
\* true rating, and the report for the page showing 4.7 whose four reviews
\* (stars 5, 5, 1, 5; adjusted 0.22, 4.84, 1.32, 1.60) were all scored has
\* true rating 1.995, gap 2.705 and counts human 2, bot 1, low effort 0.
C12_Original ==
    (screen = "results" /\ Len(currentResults) > 0)
        => /\ RatEq(report.gap, RatSub(report.avgDisplayed, report.avgTrue))
           /\ (dom = 1 /\ TextsOf(currentResults) = <<1, 2, 4, 5>>)
                 => /\ RatEq(report.avgTrue, Rat(1995, 10))
                    /\ RatEq(report.gap, Rat(2705, 10))
                    /\ report.counts.human = 2
                    /\ report.counts.bot = 1
                    /\ report.counts.lowEffort = 0

\* C13: the aggregate of the empty analyzed list has true rating 0,
\* displayed rating 0, gap 0 and every count 0, whatever displayed rating
\* the page context carries.
C13_ZeroState ==
    (screen = "results" /\ currentResults = <<>>)
        => /\ RatEq(report.avgTrue, Rat(0, 1))
           /\ RatEq(report.avgDisplayed, Rat(0, 1))
           /\ RatEq(report.gap, Rat(0, 1))
           /\ report.counts = [human |-> 0, bot |-> 0, lowEffort |-> 0, total |-> 0]

\* C13 witness: the aggregate was applied to the empty list with a page
\* context that carries the displayed rating 4.7
C13_Witness ==
    /\ surface = "popup" /\ screen = "results" /\ currentResults = <<>>
    /\ pageInfo.displayedRating = 470 /\ report.band = "neutral"

\* C14 as stated: in every report the three label counts add up to the
\* total, which is the number of analyzed reviews.
C14_Original ==
    (screen = "results" /\ Len(currentResults) > 0)
        => /\ report.counts.total = Len(currentResults)
           /\ report.counts.human + report.counts.bot + report.counts.lowEffort
                  = report.counts.total

\* C15 as stated: when an analysis ends with candidates extracted and not
\* one of them scored, what the user is shown is the error state, not the
\* "no reviews found" state, on the popup and on the bookmarklet.
C15_Original ==
    [][\A h \in Handlers :
          (/\ proc[h].kind \in {"analyze", "run"} /\ proc[h].pc = "finish"
           /\ Len(proc[h].reviews) > 0 /\ proc[h].results = <<>>
           /\ proc'[h].kind = "none")
              => screen' = "error" /\ screen' # "noReviews"]_vars

\* C16: a load-more whose extraction leaves no new candidate ends there: it
\* issues no scoring call, leaves results and report as they are, clears
\* the loading flag and puts "no more reviews found" on the button (never
\* the failure text, which only the popup's failed page message produces);
\* a load-more that goes on to scoring has at least one new candidate.
C16_NoNewDataSignal ==
    [][\A h \in Handlers :
          (proc[h].kind = "loadMore" /\ proc[h].pc = "extract" /\ proc'[h].pc # "extract")
              => IF proc'[h].kind = "none"
                 THEN /\ btn'.label = "nomore" \/ (surface = "popup" /\ btn'.label = "failed")
                      /\ btn'.label = "nomore" => Unanalyzed(dom', sel') = <<>>
                      /\ ~isLoading'
                      /\ UNCHANGED <<currentResults, screen, report, failures>>
                 ELSE /\ Len(proc'[h].reviews) > 0
                      /\ proc'[h].sent = <<>>]_vars

\* C16 witness: the bookmarklet shows "no more reviews found" under the
\* results of the first analysis, nothing in flight
C16_Witness ==
    /\ surface = "bookmarklet" /\ btn.label = "nomore" /\ btn.shown
    /\ screen = "results" /\ InFlight = {} /\ ~isLoading /\ clicks = 1

\* C17 as stated: with the overlay closed and a batch in progress, no
\* further scoring call is issued and nothing is added to the analyzed
\* reviews of the session.
C17_Original ==
    [][(closed /\ \E h \in Handlers : proc[h].pc = "fetch" /\ proc[h].sent # <<>>)
          => /\ \A h \in Handlers : Len(proc'[h].sent) <= Len(proc[h].sent)
             /\ currentResults' = currentResults]_vars

\* the activations of run / handleAnalyze that hold what extractReviews
\* returned for the page and selection in dom and sel
FirstExtracted ==
    {h \in Handlers : proc[h].kind \in {"run", "analyze"} /\ proc[h].pc \in {"fetch", "finish"}}

\* the texts of the elements the selector loops of the page visit
MatchedTexts(p) == {Page(p).matches[k] : k \in 1..Len(Page(p).matches)}

\* C18 as stated: the text of a matched element is among the candidates
\* exactly when its trimmed length is at least 20 and at most 5000.
C18_Original ==
    \A h \in FirstExtracted :
        Len(proc[h].reviews) < MaxExtract =>
            \A t \in MatchedTexts(dom) \ {sel} :
                t \in TextSet(proc[h].reviews) <=> (TextLen(t) >= 20 /\ TextLen(t) <= 5000)

\* C18 amended: the text of a matched element is among the candidates
\* exactly when its trimmed length is more than 20 and less than 5000:
\* lengths 21 and 4999 are accepted, lengths 19, 20, 5000 and 5001 are not.
C18_OpenInterval ==
    \A h \in FirstExtracted :
        Len(proc[h].reviews) < MaxExtract =>
            \A t \in MatchedTexts(dom) \ {sel} :
                t \in TextSet(proc[h].reviews) <=> (TextLen(t) > 20 /\ TextLen(t) < 5000)

\* C18 witness: the extraction of the page whose elements have the lengths
\* 19, 20, 21, 4999, 5000 and 5001 kept those of length 21 and 4999 only
C18_Witness ==
    \E h \in FirstExtracted :
        /\ dom = 4
        /\ {8, 9, 10, 11, 12, 13} \cap TextSet(proc[h].reviews) = {10, 11}
        /\ {TextLen(t) : t \in MatchedTexts(dom)} = {19, 20, 21, 100, 4999, 5000, 5001}

\* C19 as stated: no two candidates one extraction returns have the same
\* text, the prepended selection included.
C19_Original == \A h \in FirstExtracted : NoDupText(proc[h].reviews)

\* what an extraction returns when the selection of at least minLen
\* characters, and no other, is put first with 3 stars
SelectionFirst(reviews, minLen) ==
    IF sel # NoSelection /\ TextLen(sel) >= minLen
    THEN /\ Len(reviews) > 0
         /\ Head(reviews) = [text |-> sel, stars |-> 3]
         /\ Tail(reviews) = Slice(extractReviews(dom, NoSelection), MaxExtract - 1)
    ELSE reviews = extractReviews(dom, NoSelection)

\* C20 as stated: a selection of at least 20 characters is the first
\* candidate, with 3 stars, ahead of the element candidates; a shorter
\* selection or none adds nothing.
C20_Original == \A h \in FirstExtracted : SelectionFirst(proc[h].reviews, 20)

\* C20 amended: a selection of more than 20 characters (21 or more) is the
\* first candidate, with 3 stars, ahead of the element candidates; a
\* selection of 20 characters or fewer, or none, adds nothing.
C20_SelectionOver20First == \A h \in FirstExtracted : SelectionFirst(proc[h].reviews, 21)

\* C20 witness: the selected text, which is also a 5-star review element of
\* the page, leads the candidates with 3 stars
C20_Witness ==
    \E h \in FirstExtracted :
        /\ dom = 1 /\ sel = 2 /\ TextLen(sel) > 20
        /\ Head(proc[h].reviews) = [text |-> 2, stars |-> 3]
        /\ Len(proc[h].reviews) = 5

\* the accepted texts of a list of element texts, each once at its first
\* place, behind the selected text when one longer than 20 characters is
\* selected
AcceptedIn(order, s) ==
    LET idx == [k \in 1..Len(order) |-> k]
        kept == SelectSeq(idx, LAMBDA k : /\ TextLen(order[k]) > MinTextLen
                                          /\ TextLen(order[k]) < MaxTextLen
                                          /\ \A j \in 1..(k - 1) : order[j] # order[k])
        texts == [i \in 1..Len(kept) |-> order[kept[i]]]
    IN  IF s # NoSelection /\ TextLen(s) > MinTextLen THEN <<s>> \o texts ELSE texts

\* C21 as stated: extractReviews returns the first 50 of the accepted
\* candidates in document order.
C21_Original ==
    screen = "applied" =>
        TextsOf(allExtractedReviews) = Slice(AcceptedIn(DocumentOrder(dom), sel), MaxExtract)

\* C21 (amended): extractReviews returns at most 50 candidates, the first 50
\* of the accepted candidates in the order the selector list is walked:
\* selector by selector, and in document order among the elements one
\* selector matches.
C21_CappedInSelectorOrder ==
    screen = "applied" =>
        /\ Len(allExtractedReviews) <= 50
        /\ TextsOf(allExtractedReviews) = Slice(AcceptedIn(Page(dom).matches, sel), 50)

\* a page of 51 accepted elements gave the first 50 of them
C21_Witness ==
    /\ screen = "applied"
    /\ dom = 151
    /\ sel = NoSelection
    /\ Len(allExtractedReviews) = 50
    /\ allExtractedReviews[50].text = 1050

\* C22 as stated: extractStarRating returns null or an integer in 1..5 for
\* any container.
C22_Original ==
    screen = "applied" =>
        ret.extractedStars = Null \/ ret.extractedStars \in 1..5

\* C22 (amended): extractStarRating returns null or a whole number that may
\* lie outside 1..5; the stars of the candidate built from it are in 1..5:
\* the returned number when it is in 1..5, 1 below, 5 above, 3 for null.
C22_ClampedByTheCaller ==
    screen = "applied" =>
        LET e == ret.extractedStars
        IN  /\ e \in Int
            /\ ret.stars \in 1..5
            /\ ret.stars = (CASE e = Null -> 3
                              [] e # Null /\ e < 1 -> 1
                              [] e > 5 -> 5
                              [] OTHER -> e)

\* a data-rating of 9 was returned as 9 and the candidate got 5 stars
C22_Witness ==
    /\ screen = "applied"
    /\ arg.dataRating = 900
    /\ ret.extractedStars = 9
    /\ ret.stars = 5

\* what each step of extractStarRating yields when it is looked at alone, in
\* the order of the code: the Amazon rating element's class digit, its
\* .a-icon-alt text, its innerText; the generic star icon's class digit, its
\* .a-icon-alt text; the data-rating attribute; the aria-label; the
\* "X out of 5" text; the filled-star count (Null: the step yields nothing)
StepValues(c) ==
    <<IF c.amazonEl THEN c.amazonClass ELSE Null,
      IF c.amazonEl /\ c.amazonAlt # Null THEN Round(c.amazonAlt) ELSE Null,
      IF c.amazonEl /\ c.amazonInner # Null THEN Round(c.amazonInner) ELSE Null,
      IF c.iconEl THEN c.iconClass ELSE Null,
      IF c.iconEl /\ c.iconAlt # Null THEN Round(c.iconAlt) ELSE Null,
      IF c.dataRating # Null THEN Round(c.dataRating) ELSE Null,
      IF c.aria # Null THEN Round(c.aria) ELSE Null,
      IF c.outOf5 # Null THEN Round(c.outOf5) ELSE Null,
      IF c.filled \in 1..5 THEN c.filled ELSE Null>>

\* C26: extractStarRating returns the value of the first step, in the fixed
\* order, that yields one, whatever later steps would yield; when no step
\* yields a value it returns null and the candidate's stars are 3.
C26_FirstSuccessWins ==
    screen = "applied" =>
        LET v == StepValues(arg)
            hits == {k \in 1..Len(v) : v[k] # Null}
        IN  /\ hits # {} =>
                 \E k \in hits : /\ \A j \in hits : k <= j
                                  /\ ret.extractedStars = v[k]
            /\ hits = {} => ret.extractedStars = Null /\ ret.stars = 3

\* the rating element's class said 4 while its text, the data-rating
\* attribute and the filled stars said otherwise: 4 was returned
C26_Witness ==
    /\ screen = "applied"
    /\ arg.amazonEl /\ arg.amazonClass = 4
    /\ arg.amazonAlt = 450 /\ arg.dataRating = 900 /\ arg.filled = 3
    /\ ret.extractedStars = 4

\* C23: every request sent to the scoring service, by the first analysis or
\* by a load-more, carries the text of the candidate it is for and that
\* candidate's stars, a whole number in 1..5.
C23_RequestsCarryTextAndStars ==
    \A h \in Handlers :
        /\ Len(proc[h].bodies) <= Len(proc[h].reviews)
        /\ \A k \in 1..Len(proc[h].bodies) :
              /\ proc[h].bodies[k].text = proc[h].reviews[k].text
              /\ proc[h].bodies[k].text # NoSelection
              /\ proc[h].bodies[k].stars \in 1..5

\* one batch sent requests for a candidate without a resolved rating (3
\* stars), for one resolved as 0 (1 star) and for one resolved as 9 (5 stars)
C23_Witness ==
    \E h \in Handlers :
        /\ [text |-> 7, stars |-> 3] \in {proc[h].bodies[k] : k \in 1..Len(proc[h].bodies)}
        /\ [text |-> 10, stars |-> 1] \in {proc[h].bodies[k] : k \in 1..Len(proc[h].bodies)}
        /\ [text |-> 11, stars |-> 5] \in {proc[h].bodies[k] : k \in 1..Len(proc[h].bodies)}

\* the site the fixed table gives for a hostname, by substring alone
SiteByHost(hostHas) ==
    IF "amazon" \in hostHas THEN "amazon"
    ELSE IF "yelp" \in hostHas THEN "yelp"
    ELSE IF "tripadvisor" \in hostHas THEN "tripadvisor"
    ELSE IF "trustpilot" \in hostHas THEN "trustpilot"
    ELSE "unknown"

\* C24 as stated: the site detectPageType reports depends on the hostname
\* alone: amazon for any host containing 'amazon' whatever the path, yelp,
\* tripadvisor, trustpilot likewise, unknown only when none matches.
C24_Original ==
    screen = "applied" => pageInfo.site = SiteByHost(Page(dom).hostHas)

C27_ReportIsAggregateOfAll ==
    screen = "results" =>
        LET g == calculateTruthGap(currentResults, pageInfo.displayedRating)
        IN  /\ RatEq(report.avgDisplayed, g.avgDisplayed)
            /\ RatEq(report.avgTrue, g.avgTrue)
            /\ RatEq(report.gap, g.gap)
            /\ report.counts = credCounts(currentResults)
            /\ report.counts.total = Len(currentResults)

\* after a load-more merged a second batch, the report covers all the
\* analyzed reviews, more than one batch can hold
C27_Witness ==
    /\ screen = "results"
    /\ InFlight = {}
    /\ Len(currentResults) > 20
    /\ report.counts.total = Len(currentResults)
    /\ report.counts.human = Len(currentResults)

\* C29: the band shown depends on the truth gap alone: the overrated band
\* ('positive') when the gap is above 0.5, the underrated band ('negative')
\* when it is below -0.5, the accurate band ('neutral') otherwise, so a gap
\* of exactly 0.5 or exactly -0.5 is in the accurate band.
C29_Bands ==
    screen = "results" =>
        /\ report.gap.den > 0
        /\ report.band = "positive" <=> report.gap.num > 50 * report.gap.den
        /\ report.band = "negative" <=> report.gap.num < (-50) * report.gap.den
        /\ report.band = "neutral" <=> /\ report.gap.num <= 50 * report.gap.den
                                       /\ report.gap.num >= (-50) * report.gap.den
        /\ report.gap.num = 50 * report.gap.den => report.band = "neutral"
        /\ report.gap.num = (-50) * report.gap.den => report.band = "neutral"

\* a page showing 3.5 with one review whose true rating is 3.0: the gap is
\* exactly 0.5 and the band is the accurate one
C29_Witness ==
    /\ screen = "results"
    /\ surface = "popup"
    /\ pageInfo.displayedRating = 350
    /\ Len(currentResults) = 1
    /\ report.gap.num = 50 * report.gap.den
    /\ report.band = "neutral"

\* C30: whenever an analysis or a load-more finishes, by whichever path
\* (results rendered, no reviews found, no new data, an error thrown and
\* caught), the in-progress flag is clear afterwards, so that a request
\* made when nothing is in flight is never turned away.
C30_FlagClearedOnEveryPath ==
    [][/\ \A h \in Handlers :
            (proc[h].kind # "none" /\ proc'[h].kind = "none") => ~isLoading'
       /\ (InFlight = {} /\ clicks' # clicks) => (~rejected' /\ InFlight' # {})
       /\ InFlight' = {} => ~isLoading']_vars

\* an analysis ended in the error state after its scoring calls failed:
\* nothing is in flight and the flag is clear
C30_Witness ==
    /\ surface = "popup"
    /\ screen = "error"
    /\ clicks >= 1
    /\ failures >= 1
    /\ InFlight = {}
    /\ ~isLoading

\* C28 as stated: a scoring call that never answers does not block the
\* session for ever: the batch eventually completes and the session leaves
\* the operation (results or an error on screen, nothing in flight).
C28_Original ==
    (\E h \in Handlers : proc[h].pc = "hung") ~> (\A h \in Handlers : proc[h].pc # "hung")
====
